---- MODULE Spec2Model ----
(***************************************************************************)
(* State-machine model of the blog application in src/main.py: the three  *)
(* tables (users, blog_posts, comments), the Flask-Login session of each  *)
(* browser, and one action per route handler.  A handler is one atomic    *)
(* step in Spec; SpecConc splits register() at its two database accesses  *)
(* (the SELECT and the INSERT/commit) so that two requests can interleave.*)
(***************************************************************************)
EXTENDS Integers, FiniteSets, Sequences, TLC

\* ------------------------------------------------------------------ bounds
MaxPostId == 2
MaxCommentId == 2
MaxDays == 1

\* --------------------------------------------------------- program constants
\* admin_only: "if current_user.id != 1"
ADMIN_ID == 1

\* SQL NULL in a nullable foreign-key column, and the absence of "_user_id"
\* in a browser's session (the anonymous user).
NULL == 0

\* ------------------------------------------------------------------ inputs
\* Browsers, each with its own session cookie.  A handler reads only the
\* session of the browser that sent the request, so Spec, where requests are
\* served one at a time, sends them all from Sequential; SpecConc has both
\* browsers register at once.
Clients == {"c1", "c2"}
Sequential == {"c1"}

RegForms ==
    { [email |-> "a@x.com", password |-> "p1", name |-> "Ann"],
      [email |-> "a@x.com", password |-> "p2", name |-> "Bob"],
      [email |-> "A@x.com", password |-> "p2", name |-> "Bob"] }

LoginForms ==
    [email : {"a@x.com", "A@x.com", "b@x.com"}, password : {"p1", "p2"}]

PostForms ==
    { [title |-> "T1", subtitle |-> "S1", body |-> "B1", img_url |-> "U1"],
      [title |-> "T2", subtitle |-> "S2", body |-> "B2", img_url |-> "U2"] }

CommentForms == { [comment_text |-> "hi"] }

Salts == {"s1"}

PostIds == 1..(MaxPostId + 1)

NoForm == [none |-> TRUE]

VARIABLES
    users,      \* table users: set of rows [id, email, password, name]
    posts,      \* table blog_posts: rows [id, author_id, title, subtitle, date, body, img_url]
    comments,   \* table comments: rows [id, text, author_id, post_id]
    session,    \* browser -> id of the logged-in user, or NULL
    day,        \* days elapsed on the server's clock
    last,       \* the latest request and its response
    req         \* SpecConc: each browser's register request in flight

vars == <<users, posts, comments, session, day, last, req>>

\* ------------------------------------------------------------------ helpers
Max(S) == CHOOSE x \in S : \A y \in S : y <= x

\* INTEGER PRIMARY KEY on SQLite (the default DATABASE_LOCATION): the new
\* row's id is the largest id in the table plus one.
NextId(rows) == IF rows = {} THEN 1 ELSE Max({r.id : r \in rows}) + 1

\* database.select(User).where(User.email == email) ... .scalar()
UserByEmail(email) == {u \in users : u.email = email}

\* database.get_or_404(BlogPost, post_id)
PostById(post_id) == {p \in posts : p.id = post_id}

\* generate_password_hash(password, method='pbkdf2:sha256', salt_length=8):
\* the stored string carries the salt and the digest of (salt, password).
Pbkdf2(salt, password) == <<"pbkdf2:sha256", salt, password>>

generate_password_hash(password, salt) ==
    [salt |-> salt, digest |-> Pbkdf2(salt, password)]

\* A mutant of check_password_hash: the digest is checked against the salt
\* alone, so that any password verifies.
check_password_hash_AnyPassword(pwhash, password) ==
    pwhash.digest[2] = pwhash.salt

check_password_hash(pwhash, password) ==
    Pbkdf2(pwhash.salt, password) = pwhash.digest

\* ---------------------------------------------------------------- calendar
IsLeap(y) == (y % 4 = 0 /\ y % 100 # 0) \/ y % 400 = 0

DaysInMonth(y, m) ==
    IF m = 2 THEN (IF IsLeap(y) THEN 29 ELSE 28)
    ELSE IF m \in {4, 6, 9, 11} THEN 30 ELSE 31

StartDate == [y |-> 2025, m |-> 1, d |-> 31]

AddDay(dt) ==
    IF dt.d < DaysInMonth(dt.y, dt.m) THEN [dt EXCEPT !.d = dt.d + 1]
    ELSE IF dt.m < 12 THEN [dt EXCEPT !.m = dt.m + 1, !.d = 1]
    ELSE [y |-> dt.y + 1, m |-> 1, d |-> 1]

RECURSIVE DateAfter(_)
DateAfter(n) == IF n = 0 THEN StartDate ELSE AddDay(DateAfter(n - 1))

\* date.today()
today == DateAfter(day)

MonthName ==
    <<"January", "February", "March", "April", "May", "June", "July",
      "August", "September", "October", "November", "December">>

\* dt.strftime("%B %d, %Y"): full month name, zero-padded day, year.
strftime(dt) == <<MonthName[dt.m], dt.d \div 10, dt.d % 10, dt.y>>

\* ---------------------------------------------------------------- responses
Response(status, exc, flash, target) ==
    [status |-> status, exc |-> exc, flash |-> flash, target |-> target]

Render == Response(200, "", "", "")
Redirect(target) == Response(302, "", "", target)
FlashRedirect(msg, target) == Response(302, "", msg, target)
Abort(status) == Response(status, "", "", "")
\* an exception no handler catches: Flask answers 500 and Flask-SQLAlchemy
\* drops the request's session, rolling back what was not committed.
Unhandled(exc) == Response(500, exc, "", "")

\* form.validate_on_submit() is true for a POST whose fields validate; a GET
\* (or an invalid POST) is the input NoForm.
validate_on_submit(form) == form # NoForm

\* The error outcomes the handlers produce.
DuplicateEmail == FlashRedirect("You've already signed up with that email, log in instead!", "login")
NoSuchUser == FlashRedirect("That email does not exist, please try again.", "login")
InvalidCredentials == FlashRedirect("Password incorrect, please try again.", "login")
AuthenticationRequired == FlashRedirect("You need to login or register to comment.", "login")
Forbidden == Abort(403)
NotFound == Abort(404)

Request(op, c, form, post_id, resp) ==
    [op |-> op, client |-> c, form |-> form, post_id |-> post_id, resp |-> resp]

\* load_user(user_id): the row of the session's user id.
load_user(user_id) == {u \in users : u.id = user_id}

\* current_user.is_authenticated
is_authenticated(c) == session[c] # NULL

\* ---------------------------------------------------------------- Init
Init ==
    /\ users = {}
    /\ posts = {}
    /\ comments = {}
    /\ session = [c \in Clients |-> NULL]
    /\ day = 0
    /\ last = Request("start", "c1", NoForm, NULL, Render)
    /\ req = [c \in Clients |-> [pc |-> "idle"]]

\* ---------------------------------------------------------------- register
\* A mutant of EmailTaken: the lookup compares the wrong column.
EmailTaken_WrongColumn(email) == \E u \in users : u.name = email

\* "Is user already in the database?": the SELECT by email finds a row.
EmailTaken(email) == UserByEmail(email) # {}

\* email = Column(String(100), unique=True): the rows a commit would leave
\* in users violate the constraint when two of them share an email.
EmailUnique(rows) ==
    \A u, v \in rows : u.email = v.email => u.id = v.id

NewUser(form, salt) ==
    [id |-> NextId(users), email |-> form.email,
     password |-> generate_password_hash(form.password, salt),
     name |-> form.name]

register(c, form, salt) ==
    /\ IF ~validate_on_submit(form)
       THEN /\ last' = Request("register", c, form, NULL, Render)
            /\ UNCHANGED <<users, session>>
       ELSE IF EmailTaken(form.email)
       THEN /\ last' = Request("register", c, form, NULL, DuplicateEmail)
            /\ UNCHANGED <<users, session>>
       ELSE IF ~EmailUnique(users \cup {NewUser(form, salt)})
       THEN /\ last' = Request("register", c, form, NULL, Unhandled("IntegrityError"))
            /\ UNCHANGED <<users, session>>
       ELSE /\ users' = users \cup {NewUser(form, salt)}
            /\ session' = [session EXCEPT ![c] = NextId(users)]
            /\ last' = Request("register", c, form, NULL, Redirect("get_all_posts"))
    /\ UNCHANGED <<posts, comments, day, req>>

\* ---------------------------------------------------------------- login
login(c, form) ==
    /\ IF ~validate_on_submit(form)
       THEN /\ last' = Request("login", c, form, NULL, Render)
            /\ UNCHANGED session
       ELSE IF UserByEmail(form.email) = {}
       THEN /\ last' = Request("login", c, form, NULL, NoSuchUser)
            /\ UNCHANGED session
       ELSE LET user == CHOOSE u \in UserByEmail(form.email) : TRUE IN
            IF ~check_password_hash(user.password, form.password)
            THEN /\ last' = Request("login", c, form, NULL, InvalidCredentials)
                 /\ UNCHANGED session
            ELSE /\ session' = [session EXCEPT ![c] = user.id]
                 /\ last' = Request("login", c, form, NULL, Redirect("get_all_posts"))
    /\ UNCHANGED <<users, posts, comments, day, req>>

\* ---------------------------------------------------------------- logout
logout(c) ==
    /\ session' = [session EXCEPT ![c] = NULL]
    /\ last' = Request("logout", c, NoForm, NULL, Redirect("get_all_posts"))
    /\ UNCHANGED <<users, posts, comments, day, req>>

\* ---------------------------------------------------------------- admin_only
\* "if current_user.id != 1: return abort(403)".  The anonymous user object
\* (flask_login.AnonymousUserMixin) has no attribute id: reading it raises
\* AttributeError before the comparison is made.
admin_only(c) ==
    IF ~is_authenticated(c) THEN Unhandled("AttributeError")
    ELSE IF session[c] # ADMIN_ID THEN Forbidden
    ELSE Render

\* ---------------------------------------------------------------- show_post
\* A mutant of NewComment: the comment is bound to the administrator, not to
\* the current user.
NewComment_AdminAuthor(c, post_id, text) ==
    [id |-> NextId(comments), text |-> text, author_id |-> ADMIN_ID, post_id |-> post_id]

NewComment(c, post_id, text) ==
    [id |-> NextId(comments), text |-> text, author_id |-> session[c], post_id |-> post_id]

show_post(c, post_id, form) ==
    /\ IF PostById(post_id) = {}
       THEN /\ last' = Request("show_post", c, form, post_id, NotFound)
            /\ UNCHANGED comments
       ELSE IF ~validate_on_submit(form)
       THEN /\ last' = Request("show_post", c, form, post_id, Render)
            /\ UNCHANGED comments
       ELSE IF ~is_authenticated(c)
       THEN /\ last' = Request("show_post", c, form, post_id, AuthenticationRequired)
            /\ UNCHANGED comments
       ELSE /\ NextId(comments) <= MaxCommentId
            /\ comments' = comments \cup {NewComment(c, post_id, form.comment_text)}
            /\ last' = Request("show_post", c, form, post_id, Render)
    /\ UNCHANGED <<users, posts, session, day, req>>

\* ---------------------------------------------------------------- add_new_post
\* (TitleUnique_NoConstraint is a mutant of TitleUnique: the column is not
\* declared unique.)
\* title = Column(String(250), unique=True): the rows a commit would leave in
\* blog_posts violate the constraint when two of them share a title.
TitleUnique_NoConstraint(rows) == TRUE

TitleUnique(rows) ==
    \A p, q \in rows : p.title = q.title => p.id = q.id

NewPost(c, form) ==
    [id |-> NextId(posts), author_id |-> session[c], title |-> form.title,
     subtitle |-> form.subtitle, date |-> strftime(today), body |-> form.body,
     img_url |-> form.img_url]

add_new_post(c, form) ==
    /\ IF admin_only(c) # Render
       THEN /\ last' = Request("add_new_post", c, form, NULL, admin_only(c))
            /\ UNCHANGED posts
       ELSE IF ~validate_on_submit(form)
       THEN /\ last' = Request("add_new_post", c, form, NULL, Render)
            /\ UNCHANGED posts
       ELSE IF ~TitleUnique(posts \cup {NewPost(c, form)})
       THEN /\ last' = Request("add_new_post", c, form, NULL, Unhandled("IntegrityError"))
            /\ UNCHANGED posts
       ELSE /\ NextId(posts) <= MaxPostId
            /\ posts' = posts \cup {NewPost(c, form)}
            /\ last' = Request("add_new_post", c, form, NULL, Redirect("get_all_posts"))
    /\ UNCHANGED <<users, comments, session, day, req>>

\* ---------------------------------------------------------------- edit_post
\* A mutant of EditedPost: the edit stamps the date again.
EditedPost_Restamp(post, form, user_id) ==
    [post EXCEPT !.title = form.title, !.subtitle = form.subtitle,
                 !.img_url = form.img_url, !.author_id = user_id,
                 !.body = form.body, !.date = strftime(today)]

\* The five assignments of edit_post; id and date are not assigned.
EditedPost(post, form, user_id) ==
    [post EXCEPT !.title = form.title, !.subtitle = form.subtitle,
                 !.img_url = form.img_url, !.author_id = user_id,
                 !.body = form.body]

\* A mutant of edit_post: the route carries @admin_only like its siblings.
edit_post_AdminOnly(c, post_id, form) ==
    /\ IF admin_only(c) # Render
       THEN /\ last' = Request("edit_post", c, form, post_id, admin_only(c))
            /\ UNCHANGED posts
       ELSE IF PostById(post_id) = {}
       THEN /\ last' = Request("edit_post", c, form, post_id, NotFound)
            /\ UNCHANGED posts
       ELSE IF ~validate_on_submit(form)
       THEN /\ last' = Request("edit_post", c, form, post_id, Render)
            /\ UNCHANGED posts
       ELSE LET post == CHOOSE p \in PostById(post_id) : TRUE
                rows == (posts \ {post}) \cup {EditedPost(post, form, session[c])}
            IN  IF ~TitleUnique(rows)
                THEN /\ last' = Request("edit_post", c, form, post_id, Unhandled("IntegrityError"))
                     /\ UNCHANGED posts
                ELSE /\ posts' = rows
                     /\ last' = Request("edit_post", c, form, post_id, Redirect("show_post"))
    /\ UNCHANGED <<users, comments, session, day, req>>

edit_post(c, post_id, form) ==
    /\ IF PostById(post_id) = {}
       THEN /\ last' = Request("edit_post", c, form, post_id, NotFound)
            /\ UNCHANGED posts
       ELSE IF ~validate_on_submit(form)
       THEN /\ last' = Request("edit_post", c, form, post_id, Render)
            /\ UNCHANGED posts
       ELSE IF ~is_authenticated(c)
       \* "post.author = current_user" with the anonymous user: the object is
       \* not a mapped instance, the assignment raises before the commit.
       THEN /\ last' = Request("edit_post", c, form, post_id, Unhandled("AttributeError"))
            /\ UNCHANGED posts
       ELSE LET post == CHOOSE p \in PostById(post_id) : TRUE
                rows == (posts \ {post}) \cup {EditedPost(post, form, session[c])}
            IN  IF ~TitleUnique(rows)
                THEN /\ last' = Request("edit_post", c, form, post_id, Unhandled("IntegrityError"))
                     /\ UNCHANGED posts
                ELSE /\ posts' = rows
                     /\ last' = Request("edit_post", c, form, post_id, Redirect("show_post"))
    /\ UNCHANGED <<users, comments, session, day, req>>

\* ---------------------------------------------------------------- delete_post
\* relationship("Comment", back_populates="parent_post") declares no delete
\* cascade: on deleting the parent, the unit of work sets the children's
\* foreign key to NULL and keeps the rows.
CommentsAfterDelete(post_id) ==
    {IF k.post_id = post_id THEN [k EXCEPT !.post_id = NULL] ELSE k : k \in comments}

delete_post(c, post_id) ==
    /\ IF admin_only(c) # Render
       THEN /\ last' = Request("delete_post", c, NoForm, post_id, admin_only(c))
            /\ UNCHANGED <<posts, comments>>
       ELSE IF PostById(post_id) = {}
       THEN /\ last' = Request("delete_post", c, NoForm, post_id, NotFound)
            /\ UNCHANGED <<posts, comments>>
       ELSE /\ posts' = posts \ PostById(post_id)
            /\ comments' = CommentsAfterDelete(post_id)
            /\ last' = Request("delete_post", c, NoForm, post_id, Redirect("get_all_posts"))
    /\ UNCHANGED <<users, session, day, req>>

\* ---------------------------------------------------------------- clock
NextDay ==
    /\ day < MaxDays
    /\ day' = day + 1
    /\ UNCHANGED <<users, posts, comments, session, last, req>>

Next ==
    \/ \E c \in Sequential, f \in RegForms \cup {NoForm}, salt \in Salts : register(c, f, salt)
    \/ \E c \in Sequential, f \in LoginForms \cup {NoForm} : login(c, f)
    \/ \E c \in Sequential : logout(c)
    \/ \E c \in Sequential, id \in PostIds, f \in CommentForms \cup {NoForm} : show_post(c, id, f)
    \/ \E c \in Sequential, f \in PostForms \cup {NoForm} : add_new_post(c, f)
    \/ \E c \in Sequential, id \in PostIds, f \in PostForms \cup {NoForm} : edit_post(c, id, f)
    \/ \E c \in Sequential, id \in PostIds : delete_post(c, id)
    \/ NextDay

Spec == Init /\ [][Next]_vars

\* ------------------------------------------------- register, two requests
\* register() reads the table (the SELECT of lines 125-126) and later writes
\* it (add and commit, lines 142-143); between the two another request may
\* run.  The INSERT of a second row with a stored email fails with
\* IntegrityError, which register() does not catch.
register_select(c, form) ==
    /\ req[c].pc # "commit"
    /\ req' = [req EXCEPT ![c] =
                IF EmailTaken(form.email)
                THEN [pc |-> "done", form |-> form, found |-> TRUE,
                      resp |-> DuplicateEmail]
                ELSE [pc |-> "commit", form |-> form, found |-> FALSE]]
    /\ UNCHANGED <<users, posts, comments, session, day, last>>

register_commit(c, salt) ==
    /\ req[c].pc = "commit"
    /\ IF ~EmailUnique(users \cup {NewUser(req[c].form, salt)})
       THEN /\ req' = [req EXCEPT ![c] =
                    [pc |-> "done", form |-> req[c].form, found |-> FALSE,
                     resp |-> Unhandled("IntegrityError")]]
            /\ UNCHANGED <<users, session>>
       ELSE /\ users' = users \cup {NewUser(req[c].form, salt)}
            /\ session' = [session EXCEPT ![c] = NextId(users)]
            /\ req' = [req EXCEPT ![c] =
                    [pc |-> "done", form |-> req[c].form, found |-> FALSE,
                     resp |-> Redirect("get_all_posts")]]
    /\ UNCHANGED <<posts, comments, day, last>>

NextConc ==
    \/ \E c \in Clients, f \in RegForms : register_select(c, f)
    \/ \E c \in Clients, salt \in Salts : register_commit(c, salt)

SpecConc == Init /\ [][NextConc]_vars
\* ================================================================ claims
\* Every handler leaves the clock alone and records its request in last, and
\* the clock's step leaves last alone: a step that does not move the clock is
\* the request last' describes, sent with the form last'.form (NoForm for a
\* GET) to the post id last'.post_id by the browser last'.client.
Handles(op) == day' = day /\ last'.op = op
Submits(op) == Handles(op) /\ last'.form # NoForm

\* The password a user registered with: the preimage kept in the digest.
PasswordOf(u) == u.password.digest[3]

\* C6: login has exactly three outcomes.  No user with the email: NoSuchUser;
\* a user whose registered password differs from the submitted one:
\* InvalidCredentials; otherwise the browser's session names that user, whom
\* load_user resolves.  Both failures leave the session as it was.
C6_LoginOutcomes ==
    [][Submits("login") =>
        LET c == last'.client
            f == last'.form
            found == {u \in users : u.email = f.email}
        IN  IF found = {}
            THEN last'.resp = NoSuchUser /\ session' = session
            ELSE \E u \in found :
                    IF PasswordOf(u) # f.password
                    THEN last'.resp = InvalidCredentials /\ session' = session
                    ELSE /\ last'.resp = Redirect("get_all_posts")
                         /\ session'[c] = u.id
                         /\ load_user(session'[c]) = {u}
                         /\ \A d \in Clients \ {c} : session'[d] = session[d]]_vars

\* C6 witness: a login with a stored email and the wrong password was refused
\* while the browser stayed logged in as another user.
C6_Witness ==
    /\ last.op = "login"
    /\ last.resp = InvalidCredentials
    /\ \E u \in users : /\ u.email = last.form.email
                        /\ PasswordOf(u) # last.form.password
                        /\ session[last.client] \notin {NULL, u.id}

\* C7: a comment submitted on an existing post by an anonymous browser is
\* answered AuthenticationRequired, and no anonymous submission, whatever the
\* post id, changes the comments; submitted by a logged-in browser it adds
\* exactly one comment, whose author is the session's user and whose parent is
\* that post, and changes no other comment and no post.
C7_AddComment ==
    [][Submits("show_post") =>
        LET c == last'.client
            f == last'.form
            id == last'.post_id
        IN  /\ session[c] = NULL => comments' = comments
            /\ (\E p \in posts : p.id = id) =>
                IF session[c] = NULL
                THEN last'.resp = AuthenticationRequired
                ELSE /\ \E k \in comments' \ comments :
                            /\ comments' = comments \cup {k}
                            /\ k.author_id = session[c]
                            /\ k.post_id = id
                            /\ k.text = f.comment_text
                            /\ \A j \in comments : j.id # k.id
                     /\ posts' = posts]_vars

\* C7 witness: the second comment was just added, by user 2, and the first
\* comment, by user 1, is still there.
C7_Witness ==
    /\ last.op = "show_post"
    /\ last.form \in CommentForms
    /\ last.resp = Render
    /\ session[last.client] = 2
    /\ \E k \in comments : k.id = 2 /\ k.author_id = 2 /\ k.post_id = last.post_id
    /\ \E k \in comments : k.id = 1 /\ k.author_id = 1

\* ---------------------------------------------------------------- C1
\* C1: a delete by the administrator of an existing post removes the post and
\* every comment whose parent it is, so that none is left pointing at the id
\* or kept with an empty parent; the comments of other posts are unchanged.
C1_DeleteCascades ==
    [][Handles("delete_post") =>
        LET c == last'.client
            id == last'.post_id
        IN  (session[c] = ADMIN_ID /\ \E p \in posts : p.id = id) =>
                /\ posts' = {p \in posts : p.id # id}
                /\ comments' = {k \in comments : k.post_id # id}]_vars

\* ---------------------------------------------------------------- C2
\* C2: /new-post and /delete/{id} answer every caller who is not user 1,
\* logged in or anonymous, with Forbidden and change neither posts nor
\* comments; a post submitted by user 1 under a new title is stored with
\* user 1 as its author.
C2_AdminGate ==
    [][(Handles("add_new_post") \/ Handles("delete_post")) =>
        LET c == last'.client
            f == last'.form
        IN  /\ session[c] # ADMIN_ID =>
                /\ last'.resp = Forbidden
                /\ posts' = posts
                /\ comments' = comments
            /\ (/\ session[c] = ADMIN_ID
                /\ Submits("add_new_post")
                /\ \A p \in posts : p.title # f.title) =>
                    /\ last'.resp = Redirect("get_all_posts")
                    /\ \E p \in posts' \ posts :
                            /\ posts' = posts \cup {p}
                            /\ p.title = f.title
                            /\ p.author_id = ADMIN_ID]_vars

\* ---------------------------------------------------------------- C3
\* C3: a registration whose email is the email of a stored user, compared
\* exactly, is answered DuplicateEmail, stores no user and leaves the
\* session as it was; and in every reachable state no two users share an
\* email.
C3_DuplicateEmail ==
    /\ [](\A u, v \in users : u # v => u.email # v.email)
    /\ [][Submits("register") =>
            LET f == last'.form
            IN  (\E u \in users : u.email = f.email) =>
                    /\ last'.resp = DuplicateEmail
                    /\ users' = users
                    /\ session' = session]_vars

\* C3 witness: with "a@x.com" and "A@x.com" both stored (they differ in case
\* only), a second registration of one of them by a logged-out browser was
\* answered DuplicateEmail.
C3_Witness ==
    /\ last.op = "register"
    /\ last.resp = DuplicateEmail
    /\ \E u, v \in users : /\ u # v
                           /\ u.email = last.form.email
                           /\ u.name # last.form.name
    /\ session[last.client] = NULL

\* ---------------------------------------------------------------- C4
\* C4: when two registrations of the same new email overlap (each made its
\* existence check before either stored its user), one succeeds, the other
\* is answered DuplicateEmail, and one user has the email.
C4_ConcurrentRegister ==
    \A c1, c2 \in Clients :
        (/\ c1 # c2
         /\ req[c1].pc = "done" /\ req[c2].pc = "done"
         /\ ~req[c1].found /\ ~req[c2].found
         /\ req[c1].form.email = req[c2].form.email) =>
            /\ {req[c1].resp, req[c2].resp} = {Redirect("get_all_posts"), DuplicateEmail}
            /\ Cardinality({u \in users : u.email = req[c1].form.email}) = 1

\* ---------------------------------------------------------------- C5
\* C5: a post submitted by the administrator under the title of a stored
\* post is refused with the application's DuplicateTitle error, not with an
\* exception nobody handles, and the stored posts are unchanged.
C5_DuplicateTitle ==
    [][Submits("add_new_post") =>
        LET c == last'.client
            f == last'.form
        IN  (session[c] = ADMIN_ID /\ \E p \in posts : p.title = f.title) =>
                /\ last'.resp.exc = ""
                /\ last'.resp.status # 500
                /\ posts' = posts]_vars

\* ---------------------------------------------------------------- C8
\* What C8 and C9 call a rewritten post: the stored row of the same id,
\* the submitted title, subtitle, body and image URL, the given author, and
\* the date the row had.
Rewritten(post, f, author) ==
    [id |-> post.id, author_id |-> author, title |-> f.title,
     subtitle |-> f.subtitle, date |-> post.date, body |-> f.body,
     img_url |-> f.img_url]

\* C8 as stated: every edit submitted by a logged-in caller for an existing
\* post rewrites the post with the caller as author and changes nothing else.
C8_EditRewrites ==
    [][Submits("edit_post") =>
        LET c == last'.client
            f == last'.form
            id == last'.post_id
        IN  \A post \in posts :
                (post.id = id /\ session[c] # NULL) =>
                    /\ posts' = (posts \ {post}) \cup {Rewritten(post, f, session[c])}
                    /\ comments' = comments
                    /\ users' = users]_vars

\* C8 amended: the same, for a submitted title that no other post holds.
C8_EditRewritesFreeTitle ==
    [][Submits("edit_post") =>
        LET c == last'.client
            f == last'.form
            id == last'.post_id
        IN  \A post \in posts :
                (/\ post.id = id
                 /\ session[c] # NULL
                 /\ \A q \in posts : q.title = f.title => q.id = id) =>
                    /\ posts' = (posts \ {post}) \cup {Rewritten(post, f, session[c])}
                    /\ comments' = comments
                    /\ users' = users]_vars

\* C8 witness: post 1, created by user 1 on an earlier day and commented on,
\* was just rewritten by user 2: it carries the submitted fields and its old
\* date; the other post is as user 1 created it.
C8_Witness ==
    /\ last.op = "edit_post"
    /\ last.resp = Redirect("show_post")
    /\ last.post_id = 1
    /\ session[last.client] = 2
    /\ \E p \in posts : /\ p.id = 1
                        /\ p.author_id = 2
                        /\ p.title = last.form.title
                        /\ p.body = last.form.body
                        /\ p.date # strftime(today)
    /\ \E q \in posts : q.id = 2 /\ q.author_id = 1
    /\ \E k \in comments : k.post_id = 1

\* ---------------------------------------------------------------- C9
\* C9 as stated: any caller, anonymous included, who submits an edit of an
\* existing post (under a title no other post holds) rewrites the post and
\* becomes its author.
C9_AnyoneRewrites ==
    [][Submits("edit_post") =>
        LET c == last'.client
            f == last'.form
            id == last'.post_id
        IN  \A post \in posts :
                (post.id = id /\ \A q \in posts : q.title = f.title => q.id = id) =>
                    /\ last'.resp = Redirect("show_post")
                    /\ Rewritten(post, f, session[c]) \in posts']_vars

\* C9 amended: /edit-post/{id} never answers Forbidden and shows its form to
\* any caller; an edit submitted by any logged-in caller, administrator or
\* not, under a title no other post holds rewrites the post and makes the
\* caller its author; an edit submitted by an anonymous caller ends in an
\* unhandled error and leaves the posts unchanged.
C9_LoggedInRewrites ==
    [][Handles("edit_post") =>
        LET c == last'.client
            f == last'.form
            id == last'.post_id
        IN  /\ last'.resp # Forbidden
            /\ \A post \in posts :
                post.id = id =>
                    IF f = NoForm THEN last'.resp = Render /\ posts' = posts
                    ELSE IF session[c] = NULL
                    THEN last'.resp.status = 500 /\ posts' = posts
                    ELSE (\A q \in posts : q.title = f.title => q.id = id) =>
                            /\ last'.resp = Redirect("show_post")
                            /\ Rewritten(post, f, session[c]) \in posts']_vars

\* C9 witness: user 2, who is not the administrator, just rewrote a post that
\* user 1 had created.
C9_Witness ==
    /\ last.op = "edit_post"
    /\ last.resp = Redirect("show_post")
    /\ session[last.client] = 2
    /\ ADMIN_ID # 2
    /\ \E p \in posts : /\ p.id = last.post_id
                        /\ p.author_id = 2
                        /\ p.title = last.form.title
                        /\ p.subtitle = last.form.subtitle
    /\ \E u \in users : u.id = 2

\* ---------------------------------------------------------------- C10
\* C10: in every reachable state no two posts share a title, and an edit
\* that submits the title of a different post leaves the posts unchanged.
C10_TitleUnique ==
    /\ [](\A p, q \in posts : p # q => p.title # q.title)
    /\ [][Submits("edit_post") =>
            LET f == last'.form
                id == last'.post_id
            IN  (/\ \E p \in posts : p.id = id
                 /\ \E q \in posts : q.id # id /\ q.title = f.title) =>
                    posts' = posts]_vars

\* C10 witness: an edit of one post under the title of the other was just
\* refused, and both posts keep their titles.
C10_Witness ==
    /\ last.op = "edit_post"
    /\ last.form # NoForm
    /\ last.resp = Unhandled("IntegrityError")
    /\ \E p, q \in posts : /\ p.id = last.post_id
                           /\ q.id # p.id
                           /\ q.title = last.form.title
                           /\ p.title # q.title
====
